---- MODULE Spec2Model ----
(***************************************************************************)
(* useAxios: a reactive HTTP-request hook around an axios instance.        *)
(* One hook instance, its five reactive cells, its single abort            *)
(* controller handle, and the execute calls that are awaiting the          *)
(* transport.  JavaScript runs the code between two awaits atomically, so  *)
(* every action below is one run-to-completion step of the event loop.     *)
(***************************************************************************)
EXTENDS Integers, Sequences, FiniteSets

\* Largest number of execute calls (the immediate one included) in a run.
MaxCalls == 2
\* Largest value of the retry option; the smallest explored is -1.
MaxRetry == 1
\* Largest number of segments (literal texts and placeholders) of a URL.
MaxUrlLen == 3

VARIABLES
    url,                    \* the url argument, as a sequence of segments
    givenParams,            \* the urlParams of the payload given to execute
    autoCancelLastReq,      \* options.autoCancelLastReq
    autoCancelOnUnmounted,  \* options.autoCancelOnUnmounted
    immediate,              \* options.immediate
    retry,                  \* options.retry
    hasInstance,            \* getCurrentInstance() was non-null at creation
    response,               \* shallowRef response
    data,                   \* shallowRef data
    error,                  \* shallowRef error
    isLoading,              \* ref isLoading
    isFinished,             \* ref isFinished
    controller,             \* index of the call that owns `controller`, 0 = undefined
    calls,                  \* the execute calls, in the order they were started
    mounted,                \* the component has not been unmounted yet
    lastCompleted,          \* history: the call that last completed without cancellation
    op                      \* history: the operation that produced this state

vars == <<url, givenParams, autoCancelLastReq, autoCancelOnUnmounted, immediate, retry, hasInstance,
          response, data, error, isLoading, isFinished, controller, calls,
          mounted, lastCompleted, op>>

cells == <<response, data, error, isLoading, isFinished>>
options == <<autoCancelLastReq, autoCancelOnUnmounted, immediate, retry, hasInstance>>
args == <<url, givenParams>>

----------------------------------------------------------------------------
\* Values held by the cells and settled by the transport.  Every transport
\* attempt yields a value of its own, tagged by call and attempt number.

Undefined == [kind |-> "undefined", call |-> 0, attempt |-> 0]
Resp(c, k) == [kind |-> "response", call |-> c, attempt |-> k]
Err(c, k) == [kind |-> "error", call |-> c, attempt |-> k]
CanceledError(c, k) == [kind |-> "cancel", call |-> c, attempt |-> k]

\* res?.data
DataOf(res) ==
    IF res.kind = "response"
    THEN [kind |-> "data", call |-> res.call, attempt |-> res.attempt]
    ELSE Undefined

\* axios.isCancel(err)
IsCancelNever(err) == FALSE
IsCancel(err) == err.kind = "cancel"

\* time-- > 0 : the test deciding whether a rejected attempt is re-invoked
ShouldRetryInclusive(time) == time >= 0
ShouldRetry(time) == time > 0

\* const defaultPayload = () => (typeof payload === 'function' ? payload() : payload)
defaultPayload == "default"

\* execute(payload = defaultPayload()): the default applies to an undefined argument
PayloadOf(arg) == IF arg = "undefined" THEN defaultPayload ELSE arg

----------------------------------------------------------------------------
\* URLs and payloads.  A URL is a sequence of segments: a literal text, or a
\* placeholder {name}.  urlParams maps names to values; "missing" marks a
\* name the object does not have.

Names == {"a", "b"}
Lit(t) == [ph |-> FALSE, text |-> t]
Ph(n) == [ph |-> TRUE, text |-> n]

\* const isDynamicURL = /\{\w+\}/.test(url)
isDynamicURL(u) == \E i \in DOMAIN u : u[i].ph

\* String(urlParams[key])
StringOf(v) == IF v = "missing" THEN "undefined" ELSE v

\* url.replace(/\{(\w+)\}/, (_, key) => String(urlParams[key])): the pattern
\* has no g flag, so the leftmost match alone is replaced.
Replace(u, m) ==
    IF isDynamicURL(u)
    THEN LET i == CHOOSE j \in DOMAIN u :
                     u[j].ph /\ \A h \in DOMAIN u : u[h].ph => j <= h
         IN  [u EXCEPT ![i] = Lit(StringOf(m[u[i].text]))]
    ELSE u

\* A payload without urlParams.
NoUrlParams == [present |-> FALSE, map |-> [n \in Names |-> "missing"]]

\* const { urlParams, ...restPayload } = payload ?? {}
UrlParamsOf(payload) == IF payload = "given" THEN givenParams ELSE NoUrlParams
restPayload(payload) == IF payload = "given" THEN {"params", "data"} ELSE {"params"}

\* let _url = url; if (isDynamicURL && urlParams) _url = url.replace(...)
RequestUrl(u, up) == IF isDynamicURL(u) /\ up.present THEN Replace(u, up.map) ELSE u

\* Object.assign({}, config, restPayload, { signal: controller.signal }): its keys
RequestConfigKeys(payload) == {"method"} \cup restPayload(payload) \cup {"signal"}

NoReturn == [response |-> Undefined, data |-> Undefined, error |-> Undefined,
             isCancel |-> FALSE]

\* The record of an execute call at its first transport invocation.
NewCall(payload, by, time) ==
    [state     |-> "awaiting",   \* "awaiting" the transport, or "resolved"
     payload   |-> payload,
     sentUrl   |-> RequestUrl(url, UrlParamsOf(payload)),  \* _url of instance(_url, _config)
     sentKeys  |-> RequestConfigKeys(payload),             \* keys of _config
     by        |-> by,           \* "immediate" (line 104) or "user"
     aborted   |-> FALSE,        \* controller.signal.aborted of this call's controller
     time      |-> time,         \* executeWithRetry's remaining retries
     attempts  |-> 1,            \* transport invocations made so far
     last      |-> "none",       \* how the last settled attempt ended
     ret       |-> NoReturn,     \* what the call's promise resolved with
     nSuccess  |-> 0,            \* onSuccess invocations for this call
     nError    |-> 0,            \* onError invocations for this call
     errArg    |-> Undefined,    \* the error last passed to onError
     nFinish   |-> 0,            \* onFinish invocations for this call
     trace     |-> <<>>,         \* the statements of lines 83-90 this call ran, in order
     atUnmount |-> FALSE]        \* history: was the handle's in-flight call at unmount

Awaiting == {c \in DOMAIN calls : calls[c].state = "awaiting"}
Resolved == {c \in DOMAIN calls : calls[c].state = "resolved"}

----------------------------------------------------------------------------
\* cancel() that aborts a loading request and leaves isLoading as it is.
cancelWithoutReset(cs, ctl, loading) ==
    IF ~loading
    THEN [calls |-> cs, isLoading |-> loading]
    ELSE [calls |-> IF ctl # 0 THEN [cs EXCEPT ![ctl].aborted = TRUE] ELSE cs,
          isLoading |-> loading]

\* function cancel(): returns the calls and the loading flag it leaves behind.
\*   if (isLoading.value) return; controller?.abort(); isLoading.value = false
cancel(cs, ctl, loading) ==
    IF loading
    THEN [calls |-> cs, isLoading |-> loading]
    ELSE [calls |-> IF ctl # 0 THEN [cs EXCEPT ![ctl].aborted = TRUE] ELSE cs,
          isLoading |-> FALSE]

\* if (autoCancelLastReq) cancel()
AutoCancelsAlways == TRUE
AutoCancels == autoCancelLastReq

\* execute without the assignment `isLoading.value = true`.
ExecuteStartNotLoading(cs, ctl, loading, arg, by, time, auto) ==
    LET after == IF auto THEN cancel(cs, ctl, loading)
                         ELSE [calls |-> cs, isLoading |-> loading]
    IN  [calls      |-> Append(after.calls, NewCall(PayloadOf(arg), by, time)),
         controller |-> Len(cs) + 1,
         isLoading  |-> after.isLoading,
         isFinished |-> FALSE]

\* execute with the assignment `controller = new AbortController()` made only
\* while no controller exists yet.
ExecuteStartKeepsHandle(cs, ctl, loading, arg, by, time, auto) ==
    LET after == IF auto THEN cancel(cs, ctl, loading)
                         ELSE [calls |-> cs, isLoading |-> loading]
    IN  [calls      |-> Append(after.calls, NewCall(PayloadOf(arg), by, time)),
         controller |-> IF ctl # 0 THEN ctl ELSE Len(cs) + 1,
         isLoading  |-> TRUE,
         isFinished |-> FALSE]

\* The synchronous part of execute, up to the await: optional auto-cancel, a
\* fresh controller, isLoading/isFinished, and the first transport invocation.
ExecuteStart(cs, ctl, loading, arg, by, time, auto) ==
    LET after == IF auto THEN cancel(cs, ctl, loading)
                         ELSE [calls |-> cs, isLoading |-> loading]
    IN  [calls      |-> Append(after.calls, NewCall(PayloadOf(arg), by, time)),
         controller |-> Len(cs) + 1,
         isLoading  |-> TRUE,
         isFinished |-> FALSE]

\* if (immediate) execute()
ImmediateNever(imm) == FALSE
ImmediateExecutes(imm) == imm

\* The URLs and urlParams objects explored.
Segments == {Lit("/x"), Ph("a"), Ph("b")}
Urls == UNION {[1..n -> Segments] : n \in 0..MaxUrlLen}
ParamChoices == [present : BOOLEAN, map : [Names -> {"7", "missing"}]]

\* useAxios(url, config, options): the hook as the call returns it.
Created(urls, params) ==
    /\ url \in urls
    /\ givenParams \in params
    /\ autoCancelLastReq \in BOOLEAN
    /\ autoCancelOnUnmounted \in BOOLEAN
    /\ immediate \in BOOLEAN
    /\ retry \in -1..MaxRetry
    /\ hasInstance \in BOOLEAN
    /\ response = Undefined
    /\ data = Undefined
    /\ error = Undefined
    /\ mounted = TRUE
    /\ lastCompleted = 0
    /\ op = "init"
    /\ IF ImmediateExecutes(immediate)
       THEN LET s == ExecuteStart(<<>>, 0, FALSE, "undefined", "immediate", retry,
                                  AutoCancels)
            IN  /\ calls = s.calls
                /\ controller = s.controller
                /\ isLoading = s.isLoading
                /\ isFinished = s.isFinished
       ELSE /\ calls = <<>>
            /\ controller = 0
            /\ isLoading = FALSE
            /\ isFinished = FALSE

Init ==
    Created({<<Lit("/users/"), Ph("a")>>},
            {[present |-> TRUE, map |-> [n \in Names |-> IF n = "a" THEN "7" ELSE "missing"]]})

\* execute(arg), called by the user, while fewer than limit calls were made.
ExecuteUpTo(arg, limit) ==
    /\ Len(calls) < limit
    /\ LET s == ExecuteStart(calls, controller, isLoading, arg, "user", retry,
                             AutoCancels)
       IN  /\ calls' = s.calls
           /\ controller' = s.controller
           /\ isLoading' = s.isLoading
           /\ isFinished' = s.isFinished
    /\ op' = "execute"
    /\ UNCHANGED <<args, options, response, data, error, mounted, lastCompleted>>

Execute(arg) == ExecuteUpTo(arg, MaxCalls)

\* cancel(), called by the user.
Cancel ==
    /\ LET s == cancel(calls, controller, isLoading)
       IN  /\ calls' = s.calls
           /\ isLoading' = s.isLoading
    /\ op' = "cancel"
    /\ UNCHANGED <<args, options, response, data, error, isFinished, controller, mounted,
                   lastCompleted>>

\* The handle's call, marked when it is in flight at the moment of unmount.
MarkAtUnmount(cs, ctl) ==
    IF ctl # 0 /\ cs[ctl].state = "awaiting"
    THEN [cs EXCEPT ![ctl].atUnmount = TRUE]
    ELSE cs

\* if (autoCancelOnUnmounted && getCurrentInstance()) onUnmounted(cancel)
UnmountHookRegistered == autoCancelOnUnmounted /\ hasInstance

\* The component is unmounted: the registered hook, if any, runs cancel.
Unmount ==
    /\ mounted
    /\ mounted' = FALSE
    /\ LET marked == MarkAtUnmount(calls, controller)
           s == IF UnmountHookRegistered
                THEN cancel(marked, controller, isLoading)
                ELSE [calls |-> marked, isLoading |-> isLoading]
       IN  /\ calls' = s.calls
           /\ isLoading' = s.isLoading
    /\ op' = "unmount"
    /\ UNCHANGED <<args, options, response, data, error, isFinished, controller,
                   lastCompleted>>

----------------------------------------------------------------------------
\* How the attempt in flight for a call can settle: on an aborted signal the
\* transport rejects with a cancellation, otherwise it fulfils or rejects.
OutcomesIgnoreAbort(call) == {"ok", "fail"}
Outcomes(call) == IF call.aborted THEN {"cancel"} ELSE {"ok", "fail"}

\* .catch(err => (time-- > 0 ? asyncFnWrap() : ...)): the retry branch.
RetryReportsError(call, outcome, err) ==
    [call EXCEPT !.time = @ - 1, !.attempts = @ + 1, !.last = outcome,
                 !.nError = @ + 1, !.errArg = err]
Retry(call, outcome, err) ==
    [call EXCEPT !.time = @ - 1, !.attempts = @ + 1, !.last = outcome]

\* A rejected attempt of call c is re-invoked at once on the same signal.
SettleRetry(c, outcome, err) ==
    /\ calls' = [calls EXCEPT ![c] = Retry(@, outcome, err)]
    /\ UNCHANGED <<cells, lastCompleted>>

\* response.value = res; data.value = res?.data; error.value = err;
\* isLoading.value = false
StoredKeepsError(res, err) ==
    [response |-> res, data |-> DataOf(res),
     error |-> IF err = Undefined THEN error ELSE err, isLoading |-> FALSE]
StoredStillLoading(res, err) ==
    [response |-> res, data |-> DataOf(res), error |-> err, isLoading |-> isLoading]
Stored(res, err) ==
    [response |-> res, data |-> DataOf(res), error |-> err, isLoading |-> FALSE]

\* if (res) onSuccess?.(res.data, res) else if (err) onError?.(err)
Callback(res, err) ==
    IF res # Undefined THEN <<"onSuccess">>
    ELSE IF err # Undefined THEN <<"onError">>
    ELSE <<>>

\* Lines 83-90 in the order they run: the result cells, isLoading, the
\* success or error callback, isFinished, the finish callback.
CompletionFinishesFirst(res, err) ==
    <<"cells", "isLoading", "isFinished", "onFinish">> \o Callback(res, err)
Completion(res, err) ==
    <<"cells", "isLoading">> \o Callback(res, err) \o <<"isFinished", "onFinish">>

\* How often statement e occurs in the run t.
Count(t, e) == Cardinality({i \in DOMAIN t : t[i] = e})

\* The rest of execute after the await, for the result [res, err].
Resume(c, call, res, err) ==
    IF IsCancel(err)
    THEN /\ calls' = [calls EXCEPT ![c] =
                        [call EXCEPT !.state = "resolved", !.ret.isCancel = TRUE]]
         /\ UNCHANGED <<cells, lastCompleted>>
    ELSE /\ response' = Stored(res, err).response
         /\ data' = Stored(res, err).data
         /\ error' = Stored(res, err).error
         /\ isLoading' = Stored(res, err).isLoading
         /\ isFinished' = TRUE
         /\ lastCompleted' = c
         /\ calls' = [calls EXCEPT ![c] =
                [call EXCEPT
                    !.state = "resolved",
                    !.trace = Completion(res, err),
                    !.nSuccess = @ + Count(Completion(res, err), "onSuccess"),
                    !.nError = @ + Count(Completion(res, err), "onError"),
                    !.errArg = IF Count(Completion(res, err), "onError") > 0 THEN err ELSE @,
                    !.nFinish = @ + Count(Completion(res, err), "onFinish"),
                    !.ret = [response |-> res, data |-> DataOf(res), error |-> err,
                             isCancel |-> FALSE]]]

\* asyncFn().then(...).catch(...): the attempt in flight of a call that has not
\* resolved carries the handlers of asyncFnWrap, the retried attempts included.
AttemptHandledFirstOnly(call) == call.state = "awaiting" /\ call.attempts = 1
AttemptHandled(call) == call.state = "awaiting"

\* The attempt in flight for call c settles.
Settle(c) ==
    /\ c \in DOMAIN calls
    /\ AttemptHandled(calls[c])
    /\ \E outcome \in Outcomes(calls[c]) :
         LET k == calls[c].attempts
             err == IF outcome = "cancel" THEN CanceledError(c, k) ELSE Err(c, k)
         IN  IF outcome = "ok"
             THEN Resume(c, [calls[c] EXCEPT !.last = outcome], Resp(c, k), Undefined)
             ELSE IF ShouldRetry(calls[c].time)
                  THEN SettleRetry(c, outcome, err)
                  ELSE Resume(c, [calls[c] EXCEPT !.last = outcome, !.time = @ - 1],
                              Undefined, err)
    /\ op' = "settle"
    /\ UNCHANGED <<args, options, controller, mounted>>

Next ==
    \/ \E arg \in {"undefined", "given"} : Execute(arg)
    \/ Cancel
    \/ Unmount
    \/ \E c \in DOMAIN calls : Settle(c)

Spec == Init /\ [][Next]_vars

\* The hook for every URL and urlParams object within the bounds, and the
\* requests its execute calls send.
InitUrl ==
    /\ Created(Urls, ParamChoices)
    /\ ~autoCancelLastReq /\ ~autoCancelOnUnmounted /\ ~hasInstance
    /\ retry = 0

NextUrl == \E arg \in {"undefined", "given"} : Execute(arg)

\* The transport settles every attempt in flight.
TransportSettles == \A c \in 1..MaxCalls : WF_vars(Settle(c))

\* The hook outside a component (unmount reaches the calls only through
\* cancel), with every attempt in flight settled in the end.
InitLive == Init /\ ~autoCancelOnUnmounted /\ ~hasInstance

NextLive ==
    \/ \E arg \in {"undefined", "given"} : Execute(arg)
    \/ Cancel
    \/ \E c \in DOMAIN calls : Settle(c)

FairSpec == InitLive /\ [][NextLive]_vars /\ TransportSettles

SpecUrl == InitUrl /\ [][NextUrl]_vars

\* One more execute call than in Spec, for a hook without retries, without
\* immediate execution and outside a component.
InitWide ==
    /\ Init
    /\ retry = 0
    /\ ~immediate /\ ~autoCancelOnUnmounted /\ ~hasInstance

NextWide ==
    \/ \E arg \in {"undefined", "given"} : ExecuteUpTo(arg, MaxCalls + 1)
    \/ Cancel
    \/ \E c \in DOMAIN calls : Settle(c)

SpecWide == InitWide /\ [][NextWide]_vars

----------------------------------------------------------------------------
\* Shorthands for the steps the properties speak about.

Max(a, b) == IF a > b THEN a ELSE b

\* Transport invocations a call makes when every attempt is rejected.
FullAttempts == Max(retry, 0) + 1

\* Calls that resolved without cancellation.
Completed == {c \in Resolved : ~calls[c].ret.isCancel}

\* This step is a call of execute: a new call is appended.
ExecuteStep == Len(calls') = Len(calls) + 1

\* This step resolves call c.
Resolves(c) == calls[c].state = "awaiting" /\ calls'[c].state = "resolved"

\* The handle's call is awaiting the transport.
HandleInFlight == controller # 0 /\ calls[controller].state = "awaiting"

\* The cells hold exactly what call c resolved with.
CellsHold(c) ==
    /\ response = calls[c].ret.response
    /\ data = calls[c].ret.data
    /\ error = calls[c].ret.error

----------------------------------------------------------------------------
\* C1: with retry = n, one execute call invokes the transport at most
\* max(n,0)+1 times; exactly max(n,0)+1 times when every attempt was rejected;
\* and the attempt that succeeded is the last one invoked (the call resolves
\* with that attempt's response and is never invoked again).
RetryCountHonored ==
    \A c \in DOMAIN calls :
        /\ calls[c].attempts <= FullAttempts
        /\ (calls[c].state = "resolved" /\ calls[c].last \in {"fail", "cancel"})
              => calls[c].attempts = FullAttempts
        /\ calls[c].last = "ok"
              => /\ calls[c].state = "resolved"
                 /\ calls[c].ret.response = Resp(c, calls[c].attempts)

\* A call with retry = 1 whose two attempts were both rejected.
RetryExhausted ==
    \E c \in DOMAIN calls :
        /\ retry = 1
        /\ calls[c].state = "resolved"
        /\ calls[c].last = "fail"
        /\ calls[c].attempts = 2

\* C2: with autoCancelLastReq, a call of execute made while the earlier call
\* (the one owning the handle) is still awaiting the transport aborts that
\* call's signal.
AutoCancelAbortsPrior ==
    [][(autoCancelLastReq /\ ExecuteStep /\ HandleInFlight)
          => calls'[controller].aborted]_vars

\* C3: with autoCancelLastReq, at most one call is awaiting the transport on
\* a signal that has not been aborted.
AtMostOneInFlight ==
    autoCancelLastReq
        => Cardinality({c \in Awaiting : ~calls[c].aborted}) <= 1

\* C4: with autoCancelLastReq, once every call has resolved the cells hold the
\* outcome of the most recently started call that was not cancelled, and a
\* call never writes the cells after a later call has been started.
LastCallWins ==
    [][autoCancelLastReq =>
         /\ \A c \in DOMAIN calls :
               (Resolves(c) /\ ~calls'[c].ret.isCancel) => c = Len(calls)
         /\ (\A c \in DOMAIN calls : calls'[c].state = "resolved")
               => \A c \in DOMAIN calls :
                     (/\ ~calls'[c].ret.isCancel
                      /\ \A d \in DOMAIN calls : d > c => calls'[d].ret.isCancel)
                        => /\ response' = calls'[c].ret.response
                           /\ data' = calls'[c].ret.data
                           /\ error' = calls'[c].ret.error]_vars

\* C5: a call whose final transport failure is a cancellation resolves with
\* isCancel = true and leaves response, data, error and isFinished as they
\* were; the error cell never holds a cancellation error.
CancellationSuppressesError ==
    [][/\ \A c \in DOMAIN calls :
             (Resolves(c) /\ calls'[c].last = "cancel")
                => /\ calls'[c].ret.isCancel
                   /\ calls'[c].ret.error = Undefined
                   /\ UNCHANGED <<response, data, error, isFinished>>
       /\ error'.kind # "cancel"]_vars

\* A cancelled call has resolved while the error cell keeps the error that an
\* other call stored.
CancelledKeepsError ==
    \E c \in Resolved :
        /\ calls[c].ret.isCancel
        /\ error.kind = "error"
        /\ error.call # c

\* C6: a call whose attempts were all rejected with a non-cancellation error
\* returns the error of its last attempt, stores it in the error cell, and
\* invokes onError exactly once, with that error.
FinalErrorStoredOnce ==
    \A c \in DOMAIN calls :
        /\ (calls[c].state = "resolved" /\ calls[c].last = "fail")
              => /\ calls[c].ret.error = Err(c, FullAttempts)
                 /\ ~calls[c].ret.isCancel
                 /\ calls[c].nError = 1
                 /\ calls[c].errArg = calls[c].ret.error
                 /\ (lastCompleted = c => error = calls[c].ret.error)
        /\ calls[c].state = "awaiting" => calls[c].nError = 0

\* A call with retry = 1 failed twice and the error cell holds the error of
\* its second attempt, reported once.
SecondErrorStored ==
    \E c \in Resolved :
        /\ retry = 1
        /\ error = Err(c, 2)
        /\ calls[c].nError = 1
        /\ calls[c].errArg = Err(c, 2)

\* C7: cancel() called while the handle's call is awaiting the transport
\* aborts that call's signal.
CancelAbortsInFlight ==
    [][(op' = "cancel" /\ HandleInFlight) => calls'[controller].aborted]_vars

\* C8: with autoCancelOnUnmounted and a component instance, unmount aborts
\* the call in flight at that moment and none of its callbacks runs
\* afterwards; without the flag or without an instance, unmount changes no
\* call and no cell.
UnmountCancelsInFlight ==
    [][/\ (mounted /\ ~mounted')
          => IF autoCancelOnUnmounted /\ hasInstance
             THEN HandleInFlight => calls'[controller].aborted
             ELSE /\ UNCHANGED cells
                  /\ \A c \in DOMAIN calls :
                        calls'[c].aborted = calls[c].aborted
       /\ \A c \in DOMAIN calls :
             (autoCancelOnUnmounted /\ hasInstance /\ calls[c].atUnmount)
                => /\ calls'[c].nSuccess = calls[c].nSuccess
                   /\ calls'[c].nError = calls[c].nError
                   /\ calls'[c].nFinish = calls[c].nFinish]_vars

\* C9: without autoCancelLastReq a call of execute aborts no signal, every
\* call that completes returns the response, data and error of its own last
\* transport attempt, and the cells hold the outcome of the call that
\* completed last.
CallsRaceIndependently ==
    [][~autoCancelLastReq =>
         /\ ExecuteStep
               => \A c \in DOMAIN calls : calls'[c].aborted = calls[c].aborted
         /\ \A c \in DOMAIN calls' :
               (calls'[c].state = "resolved" /\ ~calls'[c].ret.isCancel)
                  => LET k == calls'[c].attempts
                         r == calls'[c].ret
                     IN  IF calls'[c].last = "ok"
                         THEN /\ r.response = Resp(c, k)
                              /\ r.data = DataOf(Resp(c, k))
                              /\ r.error = Undefined
                         ELSE /\ r.response = Undefined
                              /\ r.data = Undefined
                              /\ r.error = Err(c, k)
         /\ lastCompleted' # 0
               => /\ response' = calls'[lastCompleted'].ret.response
                  /\ data' = calls'[lastCompleted'].ret.data
                  /\ error' = calls'[lastCompleted'].ret.error]_vars

\* Two overlapping calls without auto-cancel: the one started first completed
\* last, and the cells hold its outcome, not that of the one started last.
FirstStartedCompletedLast ==
    /\ ~autoCancelLastReq
    /\ Completed = {1, 2}
    /\ lastCompleted = 1
    /\ CellsHold(1)
    /\ ~CellsHold(2)

\* C10: with immediate, the hook returned by useAxios has started exactly one
\* call, with the default payload, and isLoading is already true; without
\* immediate, every transport invocation belongs to a call of execute.
ImmediateExecution ==
    /\ op = "init"
          => IF immediate
             THEN /\ Len(calls) = 1
                  /\ calls[1].state = "awaiting"
                  /\ calls[1].attempts = 1
                  /\ calls[1].payload = defaultPayload
                  /\ isLoading
             ELSE /\ calls = <<>>
                  /\ ~isLoading
    /\ Cardinality({c \in DOMAIN calls : calls[c].by = "immediate"})
          = IF immediate THEN 1 ELSE 0

\* The hook as returned by useAxios with immediate set.
ImmediateStarted ==
    /\ op = "init"
    /\ immediate
    /\ Len(calls) = 1
    /\ isLoading

----------------------------------------------------------------------------
\* C11: for a URL with placeholders and a payload carrying urlParams, the
\* URL given to the transport has every placeholder {name} replaced by
\* String(urlParams[name]); a URL without placeholders is passed unchanged;
\* urlParams is never a key of the request configuration.
UrlTemplating ==
    \A c \in DOMAIN calls :
        LET up == UrlParamsOf(calls[c].payload)
        IN  /\ (isDynamicURL(url) /\ up.present)
                  => calls[c].sentUrl =
                        [i \in DOMAIN url |->
                            IF url[i].ph THEN Lit(StringOf(up.map[url[i].text]))
                                         ELSE url[i]]
            /\ ~isDynamicURL(url) => calls[c].sentUrl = url
            /\ "urlParams" \notin calls[c].sentKeys

----------------------------------------------------------------------------
\* C12 as claimed: every execute replaces the handle, a cancel aborts only
\* the signal of the most recently started call, and a call whose handle was
\* overwritten is never aborted afterwards and resolves without cancellation.
OverwrittenAlwaysCompletes ==
    [][/\ ExecuteStep => controller' = Len(calls')
       /\ \A c \in DOMAIN calls :
             (calls'[c].aborted /\ ~calls[c].aborted) => c = Len(calls)
       /\ \A c \in DOMAIN calls :
             (c < Len(calls) /\ calls'[c].state = "resolved")
                => ~calls'[c].ret.isCancel]_vars

\* C12 as amended: every execute replaces the handle, a cancel aborts only
\* the signal of the handle's call, which is the most recently started one,
\* and a call whose handle was overwritten while its signal was not aborted
\* is never aborted afterwards and, when it resolves, resolves without
\* cancellation.
OneHandleOverwritten ==
    [][/\ ExecuteStep => controller' = Len(calls')
       /\ \A c \in DOMAIN calls :
             (calls'[c].aborted /\ ~calls[c].aborted)
                => (c = controller /\ c = Len(calls))
       /\ \A c \in DOMAIN calls :
             (c < Len(calls) /\ ~calls[c].aborted)
                => /\ ~calls'[c].aborted
                   /\ calls'[c].state = "resolved" => ~calls'[c].ret.isCancel]_vars

\* cancel() has just aborted the third call while the first, whose handle
\* was overwritten twice, is still in flight on a signal that is not aborted.
CancelReachesLatestOnly ==
    /\ op = "cancel"
    /\ Len(calls) = 3
    /\ calls[3].aborted /\ calls[3].state = "awaiting"
    /\ ~calls[1].aborted /\ calls[1].state = "awaiting"

----------------------------------------------------------------------------
\* C13: when the transport settles every attempt, every execute call
\* eventually resolves (with a response, an error, or isCancel = true).
EveryCallResolves ==
    \A c \in 1..MaxCalls :
        (c \in DOMAIN calls) ~> (c \in DOMAIN calls /\ calls[c].state = "resolved")

\* Two overlapping calls have both resolved: one after a retry, the other
\* with isCancel = true after a cancel().
RetriedAndCancelledResolved ==
    /\ Awaiting = {}
    /\ \E c \in Resolved : calls[c].attempts = 2 /\ ~calls[c].ret.isCancel
    /\ \E c \in Resolved : calls[c].attempts = 2 /\ calls[c].ret.isCancel

----------------------------------------------------------------------------
\* C14: a call that is in flight on an aborted signal can only be re-invoked
\* with another cancellation while retries remain, and it resolves with
\* isCancel = true without a callback and without writing response, data or
\* error.
AbortNotMasked ==
    [][\A c \in DOMAIN calls :
          (calls[c].state = "awaiting" /\ calls[c].aborted)
             => /\ calls'[c].nSuccess = 0
                /\ calls'[c].nError = 0
                /\ calls'[c].attempts # calls[c].attempts
                      => /\ calls'[c].state = "awaiting"
                         /\ calls'[c].last = "cancel"
                         /\ calls'[c].attempts = calls[c].attempts + 1
                /\ Resolves(c)
                      => /\ calls'[c].ret.isCancel
                         /\ calls'[c].ret.response = Undefined
                         /\ calls'[c].ret.error = Undefined
                         /\ UNCHANGED <<response, data, error>>]_vars

\* A call with retry = 1 was aborted during its first attempt, which was
\* rejected with a cancellation, and has been re-invoked on the aborted signal.
RetriedOnAbortedSignal ==
    \E c \in Awaiting :
        /\ retry = 1
        /\ calls[c].aborted
        /\ calls[c].last = "cancel"
        /\ calls[c].attempts = 2

----------------------------------------------------------------------------
\* C15: after a completion without cancellation the three result cells hold
\* the outcome of that call alone: response, its data and no error after a
\* success; the final error and neither response nor data after a failure.
\* So response and error are never both set.
ResultCellsConsistent ==
    /\ ~(response # Undefined /\ error # Undefined)
    /\ lastCompleted # 0
          => LET c == lastCompleted
                 k == calls[c].attempts
             IN  IF calls[c].last = "ok"
                 THEN /\ response = Resp(c, k)
                      /\ data = [kind |-> "data", call |-> c, attempt |-> k]
                      /\ error = Undefined
                 ELSE /\ response = Undefined
                      /\ data = Undefined
                      /\ error = Err(c, k)

\* The first call failed and stored its error; the second then succeeded and
\* the error cell is cleared.
StaleErrorCleared ==
    /\ Completed = {1, 2}
    /\ calls[1].last = "fail"
    /\ lastCompleted = 2
    /\ calls[2].last = "ok"
    /\ error = Undefined
    /\ response = Resp(2, calls[2].attempts)

\* Statement x runs before statement y in the run t.
Before(t, x, y) == \E i, j \in DOMAIN t : i < j /\ t[i] = x /\ t[j] = y

\* C16: a call that resolves without cancellation writes the result cells
\* and isLoading, then invokes onSuccess (iff it succeeded) or onError (iff
\* it failed) once, then sets isFinished, then invokes onFinish once; a call
\* that resolves with isCancel = true invokes no callback.
CallbackProtocol ==
    \A c \in Resolved :
        LET t == calls[c].trace
            ok == calls[c].last = "ok"
            cb == IF ok THEN "onSuccess" ELSE "onError"
        IN  IF calls[c].ret.isCancel
            THEN /\ t = <<>>
                 /\ calls[c].nSuccess = 0 /\ calls[c].nError = 0 /\ calls[c].nFinish = 0
            ELSE /\ calls[c].nSuccess = (IF ok THEN 1 ELSE 0)
                 /\ calls[c].nError = (IF ok THEN 0 ELSE 1)
                 /\ calls[c].nFinish = 1
                 /\ Count(t, "onSuccess") = calls[c].nSuccess
                 /\ Count(t, "onError") = calls[c].nError
                 /\ Count(t, "onFinish") = 1
                 /\ Before(t, "cells", cb) /\ Before(t, "isLoading", cb)
                 /\ Before(t, cb, "isFinished")
                 /\ Before(t, "isFinished", "onFinish")

\* One call resolved with isCancel = true and without a callback, another
\* without cancellation and with its callbacks.
CancelledAndCompleted ==
    /\ \E c \in Resolved : calls[c].ret.isCancel
    /\ \E c \in Resolved : ~calls[c].ret.isCancel /\ calls[c].nFinish = 1

\* C17: when no execute call is awaiting the transport, isLoading is false.
NoCallNoLoading == Awaiting = {} => ~isLoading

\* Both calls have resolved, the second one, cancelled, last.
LastResolvedWasCancelled ==
    /\ op = "settle"
    /\ Len(calls) = 2
    /\ Awaiting = {}
    /\ calls[2].ret.isCancel
    /\ ~calls[1].ret.isCancel
    /\ ~isLoading

\* C18: isLoading and isFinished are never both true.
NeverLoadingAndFinished == ~(isLoading /\ isFinished)

\* An earlier call has completed while a later one is still in flight.
FinishedWhileInFlight ==
    /\ isFinished
    /\ ~isLoading
    /\ Awaiting # {}

\* C19 as claimed: a call of execute sets isLoading, clears isFinished and
\* leaves response, data and error alone, and they stay as they are for as
\* long as that call has not resolved without cancellation; cancel() changes
\* none of response, data, error and isFinished.
StartAndCancelFrameOwnCall ==
    [][/\ ExecuteStep
          => /\ isLoading' /\ ~isFinished'
             /\ UNCHANGED <<response, data, error>>
       /\ \A c \in DOMAIN calls :
             (calls[c].state = "awaiting"
                 /\ ~(Resolves(c) /\ ~calls'[c].ret.isCancel))
                => UNCHANGED <<response, data, error>>
       /\ op' \in {"cancel", "unmount"}
          => UNCHANGED <<response, data, error, isFinished>>]_vars

\* C19 as amended: a call of execute sets isLoading, clears isFinished and
\* leaves response, data and error alone; these three change only when some
\* call, that one or an overlapping one, resolves without cancellation;
\* cancel() changes none of response, data, error and isFinished.
StartAndCancelFrame ==
    [][/\ ExecuteStep
          => /\ isLoading' /\ ~isFinished'
             /\ UNCHANGED <<response, data, error>>
       /\ <<response, data, error>>' # <<response, data, error>>
          => \E c \in DOMAIN calls : Resolves(c) /\ ~calls'[c].ret.isCancel
       /\ op' \in {"cancel", "unmount"}
          => UNCHANGED <<response, data, error, isFinished>>]_vars

\* execute has just been called while the cells hold the outcome of an
\* earlier call.
StartedOverPreviousOutcome ==
    /\ op = "execute"
    /\ response # Undefined
    /\ data # Undefined
    /\ isLoading
    /\ ~isFinished

====
